---- MODULE Spec2Model ----
(***************************************************************************)
(* Model of protocol.go of go-mysqlx-driver: the length-prefixed frame     *)
(* codec (readMsg, writeProtobufPacket), capability negotiation            *)
(* (getCapabilities, setScalarBoolCapability), the MYSQL41 handshake       *)
(* (AuthenticateMySQL41, waitingForAuthenticateOk), processNotice and the  *)
(* error decoding helpers.                                                 *)
(*                                                                         *)
(* The connection is one blocking caller and one peer.  The peer appends   *)
(* bytes to the read buffer; an operation of the client is one atomic step *)
(* from one blocking read to the next.  log.Fatal ends the process         *)
(* (pc = "fatal"); a nil dereference panics (pc = "panic").                *)
(***************************************************************************)
EXTENDS Integers, Sequences, FiniteSets, TLC

VARIABLES
    inbuf,             \* mc.buf: bytes received from the peer and not yet consumed
    netDown,           \* the transport has failed: reads of missing bytes and writes fail
    netOut,            \* the bytes the current operation has written to mc.netConn
    closed,            \* mc.Close() has been called
    maxPacketAllowed,  \* mc.maxPacketAllowed
    pb,                \* mc.pb, the connection's last-message slot
    capabilities,      \* mc.capabilities
    pc,                \* where the caller is: idle, inside a wait loop, fatal, panic
    op,                \* the operation in progress or the one that returned last
    ret,               \* what the last operation returned
    readLog,           \* history: the frames readMsg returned to the current operation
    notices,           \* history: the frames handed to processNotice by the current operation
    nextAuthCalls,     \* history: calls of authInfo.GetNextAuthData in the current operation
    fed,               \* history: what the peer put on the wire last
    calls              \* history: number of operations started

vars == <<inbuf, netDown, netOut, closed, maxPacketAllowed, pb, capabilities,
          pc, op, ret, readLog, notices, nextAuthCalls, fed, calls>>

(***************************************************************************)
(* Bounds of the model.                                                    *)
(***************************************************************************)
\* operations one caller starts on one connection
MaxCalls == 2
\* frames the peer sends on one connection
MaxFrames == 3
\* the large configured frame limit: a length that needs two header bytes
BigPacket == 258

Byte == 0..255

Fill(n, b) == [i \in 1..n |-> b]

Drop(s, n) == SubSeq(s, n + 1, Len(s))

(***************************************************************************)
(* netProtobuf.  A nil pointer is NilPb; a nil payload is payloadNil with  *)
(* an empty payload.                                                       *)
(***************************************************************************)
NilPb == [isNil |-> TRUE]

netProtobuf(t, p, pnil) ==
    [isNil |-> FALSE, msgType |-> t, payload |-> p, payloadNil |-> pnil]

\* const.go of the driver (not in src/): the smallest body is the type byte
minPacketSize == 1

(***************************************************************************)
(* readMsg.  buf.readNext(n) blocks until n bytes are buffered or the      *)
(* transport fails, so readMsg can complete once canReadMsg holds.         *)
(***************************************************************************)
\* pktLen := int(uint32(data[0]) | uint32(data[1])<<8 | ...), an int of 64 bits
pktLenOf(data) ==
    data[1] + data[2] * 256 + data[3] * 65536 + data[4] * 16777216

malformNever(pktLen) == FALSE

\* if pktLen < minPacketSize
malformPkt(pktLen) == pktLen < minPacketSize

canReadMsg(buf, down) ==
    \/ down
    \/ /\ Len(buf) >= 4
       /\ \/ malformPkt(pktLenOf(buf))
          \/ Len(buf) >= 4 + pktLenOf(buf)

\* data[0] of a body; a body of no bytes has none and the index panics
bodyType(data) == IF Len(data) > 0 THEN data[1] ELSE -1

readMsg(buf) ==
    IF Len(buf) < 4
    THEN [err |-> "ErrBadConn", logged |-> "short read", pb |-> NilPb,
          rest |-> buf, close |-> TRUE]
    ELSE LET pktLen == pktLenOf(buf)
             data   == SubSeq(buf, 5, 4 + pktLen)
         IN  IF malformPkt(pktLen)
             THEN [err |-> "ErrBadConn", logged |-> "ErrMalformPkt", pb |-> NilPb,
                   rest |-> Drop(buf, 4), close |-> TRUE]
             ELSE IF Len(buf) < 4 + pktLen
             THEN [err |-> "ErrBadConn", logged |-> "short read", pb |-> NilPb,
                   rest |-> Drop(buf, 4), close |-> TRUE]
             ELSE IF Len(data) = 0
             THEN [err |-> "panic", logged |-> "index out of range", pb |-> NilPb,
                   rest |-> Drop(buf, 4), close |-> FALSE]
             ELSE [err |-> "nil", logged |-> "none",
                   pb |-> netProtobuf(bodyType(data),
                                      IF Len(data) > 1 THEN Drop(data, 1) ELSE <<>>,
                                      ~(Len(data) > 1)),
                   rest |-> Drop(buf, 4 + pktLen), close |-> FALSE]

(***************************************************************************)
(* writeProtobufPacket.  byte(x) keeps the low eight bits.  A failed       *)
(* Write is modelled as writing nothing.                                   *)
(***************************************************************************)
byte(x) == x % 256

headerBigEndian(pktLen, msgType) ==
    <<byte(pktLen \div 16777216), byte(pktLen \div 65536), byte(pktLen \div 256),
      byte(pktLen), byte(msgType)>>

\* data[0..3] = pktLen, pktLen>>8, pktLen>>16, pktLen>>24; data[4] = msgType
header(pktLen, msgType) ==
    <<byte(pktLen), byte(pktLen \div 256), byte(pktLen \div 65536),
      byte(pktLen \div 16777216), byte(msgType)>>

\* if pktLen > mc.maxPacketAllowed
tooLarge(pktLen, max) == pktLen > max

tooLargeCloses == TRUE

\* the too-large guard returns without mc.Close()
tooLargeClose == FALSE

writeProtobufPacket(p, max, down) ==
    IF p.isNil \/ p.msgType > 255
    THEN [err |-> "ErrMalformPkt", out |-> <<>>, close |-> TRUE]
    ELSE LET pktLen == Len(p.payload) + 1
         IN  IF tooLarge(pktLen, max)
             THEN [err |-> "ErrPktTooLarge", out |-> <<>>, close |-> tooLargeClose]
             ELSE IF down
             THEN [err |-> "header write failed", out |-> <<>>, close |-> FALSE]
             ELSE [err |-> "nil", out |-> header(pktLen, p.msgType) \o p.payload,
                   close |-> FALSE]

(***************************************************************************)
(* The frame codec on its own: a caller writes frames and reads frames,    *)
(* the peer echoes what was written or sends bytes of its own.             *)
(***************************************************************************)
MaxPacketChoices == {1, 2, 3, BigPacket}

\* message types a caller passes: both ends of 0..255, the server's and the
\* client's codes, and one value on either side of the range
MsgTypeChoices == {-1, 0, 1, 2, 3, 4, 5, 11, 12, 127, 128, 254, 255, 256}

PayloadChoices ==
    {<<>>, <<7>>, <<1, 2>>, <<255, 0, 9>>} \cup
    {Fill(n, 255) : n \in {BigPacket - 2, BigPacket - 1, BigPacket}}

RawChoices ==
    { <<0, 0, 0, 0>>, <<0, 0, 0, 0, 11, 5>>, <<1, 0, 0, 0, 11>>,
      <<2, 0, 0, 0, 11>>, <<3, 0, 0>>, <<0, 1, 0, 0, 11, 5>>,
      <<0, 0, 1, 0, 11, 5>>, <<0, 0, 0, 1, 11, 5>>, <<3, 0, 0, 0, 1, 8, 9, 4>> }

NoRet == [err |-> "none"]

NoOp == [name |-> "none"]

NothingFed == [kind |-> "none"]

EmptyTable == [n \in {} |-> 0]

InitCommon ==
    /\ inbuf = <<>>
    /\ netDown = FALSE
    /\ netOut = <<>>
    /\ closed = FALSE
    /\ pb = NilPb
    /\ capabilities = EmptyTable
    /\ pc = "idle"
    /\ op = NoOp
    /\ ret = NoRet
    /\ readLog = <<>>
    /\ notices = <<>>
    /\ nextAuthCalls = 0
    /\ fed = NothingFed
    /\ calls = 0

InitFrame ==
    /\ InitCommon
    /\ maxPacketAllowed \in MaxPacketChoices

protoVars == <<pb, capabilities, pc, readLog, notices, nextAuthCalls>>

\* a caller hands one frame to writeProtobufPacket
FrameWrite ==
    /\ pc = "idle" /\ ~closed /\ calls < MaxCalls
    /\ inbuf = <<>> /\ netOut = <<>>
    /\ \E t \in MsgTypeChoices, p \in PayloadChoices, pnil \in BOOLEAN :
          /\ pnil => p = <<>>
          /\ LET r == writeProtobufPacket(netProtobuf(t, p, pnil),
                                          maxPacketAllowed, netDown)
             IN  /\ netOut' = netOut \o r.out
                 /\ closed' = (closed \/ r.close)
                 /\ ret' = [err |-> r.err, out |-> r.out, after |-> ret.err]
                 /\ op' = [name |-> "writeProtobufPacket", msgType |-> t,
                           payload |-> p, payloadNil |-> pnil]
    /\ calls' = calls + 1
    /\ UNCHANGED <<inbuf, netDown, maxPacketAllowed, fed, protoVars>>

\* the peer sends back the frame it received
FrameEcho ==
    /\ netOut # <<>> /\ inbuf = <<>> /\ op.name = "writeProtobufPacket"
    /\ inbuf' = netOut
    /\ netOut' = <<>>
    /\ fed' = [kind |-> "echo", msgType |-> op.msgType, payload |-> op.payload]
    /\ UNCHANGED <<netDown, closed, maxPacketAllowed, op, ret, calls, protoVars>>

\* the peer sends bytes of its own
FrameRaw ==
    /\ netOut = <<>> /\ inbuf = <<>> /\ ~closed /\ fed.kind = "none"
    /\ \E raw \in RawChoices :
          /\ inbuf' = raw
          /\ fed' = [kind |-> "raw", bytes |-> raw]
    /\ UNCHANGED <<netDown, netOut, closed, maxPacketAllowed, op, ret, calls, protoVars>>

\* a caller reads one frame with readMsg
FrameRead ==
    /\ pc = "idle" /\ ~closed /\ calls < MaxCalls
    /\ fed.kind # "none" \/ netDown
    /\ canReadMsg(inbuf, netDown)
    /\ LET r == readMsg(inbuf)
       IN  /\ inbuf' = r.rest
           /\ closed' = (closed \/ r.close)
           /\ ret' = [err |-> r.err, logged |-> r.logged, pb |-> r.pb,
                      src |-> fed, before |-> inbuf, rest |-> r.rest]
    /\ op' = [name |-> "readMsg"]
    /\ fed' = NothingFed
    /\ calls' = calls + 1
    /\ UNCHANGED <<netDown, netOut, maxPacketAllowed, protoVars>>

\* the transport fails
NetFail ==
    /\ ~netDown
    /\ netDown' = TRUE
    /\ UNCHANGED <<inbuf, netOut, closed, maxPacketAllowed, op, ret, fed, calls, protoVars>>

NextFrame == FrameWrite \/ FrameEcho \/ FrameRaw \/ FrameRead \/ NetFail

SpecFrame == InitFrame /\ [][NextFrame]_vars

(***************************************************************************)
(* proto.Unmarshal, as far as the messages of this protocol need it: a     *)
(* payload is a run of fields, each a varint key (number * 8 + wire type)  *)
(* followed by a varint (wire type 0) or by a length and that many bytes   *)
(* (wire type 2).  Other wire types do not occur in these messages and     *)
(* fail.  A message missing a required field fails, as does a known field  *)
(* with the wrong wire type; unknown fields are skipped.                   *)
(***************************************************************************)
RECURSIVE varint(_, _)
varint(b, i) ==
    IF i > Len(b) THEN [ok |-> FALSE, val |-> 0, next |-> i]
    ELSE IF b[i] < 128 THEN [ok |-> TRUE, val |-> b[i], next |-> i + 1]
    ELSE [ok |-> varint(b, i + 1).ok,
          val |-> (b[i] - 128) + 128 * varint(b, i + 1).val,
          next |-> varint(b, i + 1).next]

BadFields == [ok |-> FALSE, fields |-> <<>>]

consField(f, rest) ==
    IF rest.ok THEN [ok |-> TRUE, fields |-> <<f>> \o rest.fields] ELSE BadFields

RECURSIVE parseFields(_, _)
parseVarintField(b, num, v) ==
    IF ~v.ok THEN BadFields
    ELSE consField([num |-> num, wt |-> 0, val |-> v.val, bytes |-> <<>>],
                   parseFields(b, v.next))

parseBytesField(b, num, n) ==
    IF ~n.ok \/ n.next + n.val - 1 > Len(b) THEN BadFields
    ELSE consField([num |-> num, wt |-> 2, val |-> 0,
                    bytes |-> SubSeq(b, n.next, n.next + n.val - 1)],
                   parseFields(b, n.next + n.val))

parseKey(b, key) ==
    IF ~key.ok THEN BadFields
    ELSE IF key.val % 8 = 0
    THEN parseVarintField(b, key.val \div 8, varint(b, key.next))
    ELSE IF key.val % 8 = 2
    THEN parseBytesField(b, key.val \div 8, varint(b, key.next))
    ELSE BadFields

parseFields(b, i) ==
    IF i > Len(b) THEN [ok |-> TRUE, fields |-> <<>>] ELSE parseKey(b, varint(b, i))

checkWireTypes(r, schema) ==
    IF ~r.ok THEN r
    ELSE IF \E k \in 1..Len(r.fields) :
                /\ r.fields[k].num \in DOMAIN schema
                /\ r.fields[k].wt # schema[r.fields[k].num]
    THEN BadFields
    ELSE r

\* the fields of message bytes b under a schema (field number -> wire type)
fieldsOf(b, schema) == checkWireTypes(parseFields(b, 1), schema)

has(fields, num) == \E k \in 1..Len(fields) : fields[k].num = num

\* the last occurrence of a field wins
get(fields, num) ==
    fields[CHOOSE k \in 1..Len(fields) :
              /\ fields[k].num = num
              /\ \A j \in (k + 1)..Len(fields) : fields[j].num # num]

all(fields, num) == SelectSeq(fields, LAMBDA f : f.num = num)

\* the bytes of an optional length-delimited field, empty when it is absent
bytesOf(fields, num) == IF has(fields, num) THEN get(fields, num).bytes ELSE <<>>

BadMsg == [ok |-> FALSE]

errorOfFields(r) ==
    IF ~r.ok \/ ~has(r.fields, 2) \/ ~has(r.fields, 3) \/ ~has(r.fields, 4)
    THEN BadMsg
    ELSE [ok |-> TRUE,
          severity |-> IF has(r.fields, 1) THEN get(r.fields, 1).val ELSE -1,
          code |-> get(r.fields, 2).val,
          msg |-> get(r.fields, 3).bytes,
          sqlState |-> get(r.fields, 4).bytes]

\* Mysqlx.Error: severity = 1 (optional), code = 2, msg = 3, sql_state = 4
unmarshalError(b) ==
    errorOfFields(fieldsOf(b, (1 :> 0) @@ (2 :> 0) @@ (3 :> 2) @@ (4 :> 2)))

authContinueOfFields(r) ==
    IF ~r.ok \/ ~has(r.fields, 1) THEN BadMsg
    ELSE [ok |-> TRUE, authData |-> get(r.fields, 1).bytes]

\* Mysqlx_Session.AuthenticateContinue: auth_data = 1
unmarshalAuthenticateContinue(b) == authContinueOfFields(fieldsOf(b, (1 :> 2)))

authOkOfFields(r) ==
    IF ~r.ok THEN BadMsg ELSE [ok |-> TRUE, authData |-> bytesOf(r.fields, 1)]

\* Mysqlx_Session.AuthenticateOk: auth_data = 1 (optional)
unmarshalAuthenticateOk(b) == authOkOfFields(fieldsOf(b, (1 :> 2)))

scalarOfFields(r, s) ==
    IF ~r.ok \/ ~has(r.fields, 1) \/ ~s.ok THEN BadMsg
    ELSE IF has(r.fields, 9) /\ ~has(s.fields, 1) THEN BadMsg
    ELSE [ok |-> TRUE,
          type |-> get(r.fields, 1).val,
          hasVBool |-> has(r.fields, 8),
          vBool |-> IF has(r.fields, 8) THEN get(r.fields, 8).val # 0 ELSE FALSE,
          hasVString |-> has(r.fields, 9),
          vString |-> bytesOf(s.fields, 1)]

scalarOfOuter(r) ==
    scalarOfFields(r, IF r.ok THEN fieldsOf(bytesOf(r.fields, 9), (1 :> 2) @@ (2 :> 0))
                      ELSE BadFields)

\* Mysqlx_Datatypes.Scalar: type = 1, v_signed_int = 2, v_unsigned_int = 3,
\* v_octets = 5, v_bool = 8, v_string = 9 (Scalar.String: value = 1)
unmarshalScalar(b) ==
    scalarOfOuter(fieldsOf(b, (1 :> 0) @@ (2 :> 0) @@ (3 :> 0) @@ (5 :> 2) @@ (8 :> 0)
                              @@ (9 :> 2)))

RECURSIVE unmarshalAny(_)
RECURSIVE unmarshalAnySeq(_)
consAny(a, rest) ==
    IF ~a.ok \/ ~rest.ok THEN [ok |-> FALSE, values |-> <<>>]
    ELSE [ok |-> TRUE, values |-> <<a>> \o rest.values]

unmarshalAnySeq(fs) ==
    IF fs = <<>> THEN [ok |-> TRUE, values |-> <<>>]
    ELSE consAny(unmarshalAny(Head(fs).bytes), unmarshalAnySeq(Tail(fs)))

arrayOfFields(af) ==
    IF af.ok THEN unmarshalAnySeq(all(af.fields, 1)) ELSE [ok |-> FALSE, values |-> <<>>]

anyOfParts(r, sc, ar) ==
    IF ~r.ok \/ ~has(r.fields, 1) THEN BadMsg
    ELSE IF has(r.fields, 2) /\ ~sc.ok THEN BadMsg
    ELSE IF ~ar.ok THEN BadMsg
    ELSE [ok |-> TRUE,
          type |-> get(r.fields, 1).val,
          hasScalar |-> has(r.fields, 2),
          scalar |-> sc,
          hasArray |-> has(r.fields, 4),
          array |-> ar.values]

anyOfFields(r) ==
    IF ~r.ok THEN BadMsg
    ELSE anyOfParts(r,
                    IF has(r.fields, 2) THEN unmarshalScalar(get(r.fields, 2).bytes)
                    ELSE BadMsg,
                    arrayOfFields(fieldsOf(bytesOf(r.fields, 4), (1 :> 2))))

\* Mysqlx_Datatypes.Any: type = 1, scalar = 2, obj = 3, array = 4
\* (Array: value = 1, repeated Any).  Objects are kept undecoded.
unmarshalAny(b) == anyOfFields(fieldsOf(b, (1 :> 0) @@ (2 :> 2) @@ (3 :> 2) @@ (4 :> 2)))

capabilityOfParts(r, v) ==
    IF ~r.ok \/ ~has(r.fields, 1) \/ ~v.ok THEN BadMsg
    ELSE [ok |-> TRUE, name |-> get(r.fields, 1).bytes, value |-> v]

capabilityOfFields(r) ==
    capabilityOfParts(r, IF r.ok /\ has(r.fields, 2)
                         THEN unmarshalAny(get(r.fields, 2).bytes) ELSE BadMsg)

\* Mysqlx_Connection.Capability: name = 1, value = 2 (Any)
unmarshalCapability(b) == capabilityOfFields(fieldsOf(b, (1 :> 2) @@ (2 :> 2)))

consCapability(c, rest) ==
    IF ~c.ok \/ ~rest.ok THEN [ok |-> FALSE, capabilities |-> <<>>]
    ELSE [ok |-> TRUE, capabilities |-> <<c>> \o rest.capabilities]

RECURSIVE unmarshalCapabilitySeq(_)
unmarshalCapabilitySeq(fs) ==
    IF fs = <<>> THEN [ok |-> TRUE, capabilities |-> <<>>]
    ELSE consCapability(unmarshalCapability(Head(fs).bytes),
                        unmarshalCapabilitySeq(Tail(fs)))

capabilitiesOfFields(r) ==
    IF ~r.ok THEN [ok |-> FALSE, capabilities |-> <<>>]
    ELSE unmarshalCapabilitySeq(all(r.fields, 1))

\* Mysqlx_Connection.Capabilities: capabilities = 1 (repeated Capability)
unmarshalCapabilities(b) == capabilitiesOfFields(fieldsOf(b, (1 :> 2)))

frameOfFields(r) ==
    IF ~r.ok \/ ~has(r.fields, 1) THEN BadMsg
    ELSE [ok |-> TRUE, type |-> get(r.fields, 1).val, payload |-> bytesOf(r.fields, 3)]

\* Mysqlx_Notice.Frame: type = 1, scope = 2 (optional), payload = 3 (optional)
unmarshalFrame(b) == frameOfFields(fieldsOf(b, (1 :> 0) @@ (2 :> 0) @@ (3 :> 2)))

warningOfFields(r) ==
    IF ~r.ok \/ ~has(r.fields, 2) \/ ~has(r.fields, 3) THEN BadMsg
    ELSE [ok |-> TRUE, code |-> get(r.fields, 2).val, msg |-> get(r.fields, 3).bytes]

\* Mysqlx_Notice.Warning: level = 1 (optional), code = 2, msg = 3
unmarshalWarning(b) == warningOfFields(fieldsOf(b, (1 :> 0) @@ (2 :> 0) @@ (3 :> 2)))

changedOfFields(r) ==
    IF ~r.ok \/ ~has(r.fields, 1) THEN BadMsg
    ELSE IF has(r.fields, 2) /\ ~unmarshalScalar(get(r.fields, 2).bytes).ok
    THEN BadMsg
    ELSE [ok |-> TRUE]

\* Mysqlx_Notice.SessionVariableChanged: param = 1 (string), value = 2 (Scalar)
unmarshalSessionVariableChanged(b) == changedOfFields(fieldsOf(b, (1 :> 2) @@ (2 :> 2)))

\* Mysqlx_Notice.SessionStateChanged: param = 1 (enum), value = 2 (Scalar)
unmarshalSessionStateChanged(b) == changedOfFields(fieldsOf(b, (1 :> 0) @@ (2 :> 2)))

(***************************************************************************)
(* proto.Marshal as the two ends use it here: varint fields and length-    *)
(* delimited fields.                                                       *)
(***************************************************************************)
RECURSIVE encVarint(_)
encVarint(n) == IF n < 128 THEN <<n>> ELSE <<128 + (n % 128)>> \o encVarint(n \div 128)

fVarint(num, n) == encVarint(num * 8) \o encVarint(n)

fBytes(num, bytes) == encVarint(num * 8 + 2) \o encVarint(Len(bytes)) \o bytes

(***************************************************************************)
(* Message types (Mysqlx.ServerMessages_Type, Mysqlx.ClientMessages_Type)  *)
(* and value types (Mysqlx_Datatypes).                                     *)
(***************************************************************************)
ServerMessages_OK == 0
ServerMessages_ERROR == 1
ServerMessages_CONN_CAPABILITIES == 2
ServerMessages_SESS_AUTHENTICATE_CONTINUE == 3
ServerMessages_SESS_AUTHENTICATE_OK == 4
ServerMessages_NOTICE == 11
\* a server message type none of the wait loops names
ServerMessages_RESULTSET_ROW == 13

ClientMessages_CON_CAPABILITIES_GET == 1
ClientMessages_CON_CAPABILITIES_SET == 2
ClientMessages_SESS_AUTHENTICATE_START == 4
ClientMessages_SESS_AUTHENTICATE_CONTINUE == 5

Any_SCALAR == 1
Any_OBJECT == 2
Any_ARRAY == 3
Scalar_V_UINT == 2
Scalar_V_BOOL == 7
Scalar_V_STRING == 8

(***************************************************************************)
(* Texts, as bytes.                                                        *)
(***************************************************************************)
StrDocFormats == <<100, 111, 99, 46, 102, 111, 114, 109, 97, 116, 115>>
StrJSON == <<74, 83, 79, 78>>
StrTls == <<116, 108, 115>>
StrAuthMechs == <<97, 117, 116, 104, 46, 109, 101, 99, 104, 115>>
StrMYSQL41 == <<77, 89, 83, 81, 76, 52, 49>>
StrPLAIN == <<80, 76, 65, 73, 78>>
StrNodeType == <<110, 111, 100, 101, 95, 116, 121, 112, 101>>
StrHY000 == <<72, 89, 48, 48, 48>>
StrInvalidUser == <<73, 110, 118, 97, 108, 105, 100, 32, 117, 115, 101, 114, 32, 111, 114, 32, 112, 97, 115, 115, 119, 111, 114, 100>>
StrDb == <<100, 98>>
StrUser == <<114, 111, 111, 116>>
StrPasswd == <<112, 119>>

(***************************************************************************)
(* The peer's messages, marshalled.                                        *)
(***************************************************************************)
encScalarString(str) ==
    fVarint(1, Scalar_V_STRING) \o fBytes(9, fBytes(1, str))

encScalarBool(v) ==
    fVarint(1, Scalar_V_BOOL) \o fVarint(8, IF v THEN 1 ELSE 0)

encScalarUint(n) == fVarint(1, Scalar_V_UINT) \o fVarint(3, n)

encAnyScalar(scalar) == fVarint(1, Any_SCALAR) \o fBytes(2, scalar)

RECURSIVE encArrayValues(_)
encArrayValues(anys) ==
    IF anys = <<>> THEN <<>> ELSE fBytes(1, Head(anys)) \o encArrayValues(Tail(anys))

encAnyArray(anys) == fVarint(1, Any_ARRAY) \o fBytes(4, encArrayValues(anys))

encAnyObject == fVarint(1, Any_OBJECT) \o fBytes(3, <<>>)

encCapability(name, any) == fBytes(1, name) \o fBytes(2, any)

RECURSIVE encCapabilities(_)
encCapabilities(caps) ==
    IF caps = <<>> THEN <<>> ELSE fBytes(1, Head(caps)) \o encCapabilities(Tail(caps))

encError(severity, code, sqlState, msg) ==
    fVarint(1, severity) \o fVarint(2, code) \o fBytes(4, sqlState) \o fBytes(3, msg)

encNotice(type, payload) == fVarint(1, type) \o fBytes(3, payload)

encWarning(code, msg) == fVarint(2, code) \o fBytes(3, msg)

encSessionVariableChanged(param, scalar) == fBytes(1, param) \o fBytes(2, scalar)

encAuthData(data) == fBytes(1, data)

(***************************************************************************)
(* The helpers of getCapabilities.  A value is a decoded Any, never nil:   *)
(* Capability.value is a required field.                                   *)
(***************************************************************************)
isScalar(value) == value.type = Any_SCALAR

\* *value.Scalar.Type: read only where value.Scalar is not nil
isScalarString(value) ==
    value.type = Any_SCALAR /\ value.scalar.type = Scalar_V_STRING

isScalarBoolNever(value) == FALSE

isScalarBool(value) ==
    value.type = Any_SCALAR /\ value.scalar.type = Scalar_V_BOOL

scalarString(value) == value.scalar.vString

scalarBool(value) == value.scalar.vBool

\* the getters are nil-safe: an element without a scalar has Scalar type V_SINT
isArrayString(value) ==
    /\ value.type = Any_ARRAY
    /\ \A i \in 1..Len(value.array) :
          /\ value.array[i].type = Any_SCALAR
          /\ value.array[i].hasScalar
          /\ value.array[i].scalar.type = Scalar_V_STRING

arrayString(value) == [i \in 1..Len(value.array) |-> scalarString(value.array[i])]

\* the last else of the loop reads value.Scalar.Type of a value that is no scalar
unsupportedValue(value) == IF value.hasScalar THEN "skip" ELSE "panic"

\* what the body of the loop over the capabilities does with one value:
\* "string", "bool", "array" (stored), "skip" (logged) or "panic" (nil dereference)
classify(value) ==
    IF isScalar(value)
    THEN IF ~value.hasScalar THEN "panic"
         ELSE IF isScalarString(value)
         THEN (IF value.scalar.hasVString THEN "string" ELSE "panic")
         ELSE IF isScalarBool(value)
         THEN (IF value.scalar.hasVBool THEN "bool" ELSE "panic")
         ELSE "skip"
    ELSE IF isArrayString(value)
    THEN (IF \A i \in 1..Len(value.array) : value.array[i].scalar.hasVString
          THEN "array" ELSE "panic")
    ELSE unsupportedValue(value)

\* mc.capabilities (capabilities.go, not in src/): a table from name to value
Put(tab, name, entry) ==
    [n \in DOMAIN tab \cup {name} |-> IF n = name THEN entry ELSE tab[n]]

AddScalarString(tab, name, scalar) ==
    Put(tab, name, [kind |-> "string", str |-> scalar, bool |-> FALSE, arr |-> <<>>])

AddScalarBool(tab, name, scalar) ==
    Put(tab, name, [kind |-> "bool", str |-> <<>>, bool |-> scalar, arr |-> <<>>])

AddArrayString(tab, name, values) ==
    Put(tab, name, [kind |-> "array", str |-> <<>>, bool |-> FALSE, arr |-> values])

\* the body of the loop over the capabilities, for one capability
storeOne(tab, cap, what) ==
    IF what = "panic" THEN [table |-> tab, panic |-> TRUE]
    ELSE IF what = "string"
    THEN [table |-> AddScalarString(tab, cap.name, scalarString(cap.value)),
          panic |-> FALSE]
    ELSE IF what = "bool"
    THEN [table |-> AddScalarBool(tab, cap.name, scalarBool(cap.value)), panic |-> FALSE]
    ELSE IF what = "array"
    THEN [table |-> AddArrayString(tab, cap.name, arrayString(cap.value)),
          panic |-> FALSE]
    ELSE [table |-> tab, panic |-> FALSE]

\* for i := range capabilities.GetCapabilities() { ... }
RECURSIVE storeCapabilities(_, _)
storeRest(st, rest) == IF st.panic THEN st ELSE storeCapabilities(st.table, rest)

storeCapabilities(tab, caps) ==
    IF caps = <<>> THEN [table |-> tab, panic |-> FALSE]
    ELSE storeRest(storeOne(tab, Head(caps), classify(Head(caps).value)), Tail(caps))

(***************************************************************************)
(* Errors.  errorText formats severity, code, sqlState and msg, kept here  *)
(* as the four values; errorMsg ends the process when the payload does not *)
(* decode.                                                                 *)
(***************************************************************************)
errorText(e) ==
    [ok |-> TRUE, severity |-> e.severity, code |-> e.code, sqlState |-> e.sqlState,
     msg |-> e.msg]

\* errorMsg(data): log.Fatal when proto.Unmarshal fails
errorMsgFatal(data) == ~unmarshalError(data).ok

errorMsg(data) == errorText(unmarshalError(data))

printAuthenticateOkAlwaysFatal(data) == TRUE

\* printAuthenticateOk(data): log.Fatal when proto.Unmarshal fails
printAuthenticateOkFatal(data) == ~unmarshalAuthenticateOk(data).ok

(***************************************************************************)
(* processNotice: log.Fatalf when the frame or the payload of a known      *)
(* notice type does not decode; otherwise the notice is printed, mc.pb is  *)
(* reset and nil is returned.                                              *)
(***************************************************************************)
noticeFatal(f) ==
    \/ ~f.ok
    \/ f.type = 1 /\ ~unmarshalWarning(f.payload).ok
    \/ f.type = 2 /\ ~unmarshalSessionVariableChanged(f.payload).ok
    \/ f.type = 3 /\ ~unmarshalSessionStateChanged(f.payload).ok

\* if mc.pb == nil { log.Fatalf(...) }, then the decoding of mc.pb.payload
processNoticeFatal(p) == p.isNil \/ noticeFatal(unmarshalFrame(p.payload))

(***************************************************************************)
(* The MYSQL41 credential (NewMySQL41, GetInitialAuthData and              *)
(* GetNextAuthData are not in src/): the initial token names the database  *)
(* and the user, the response mixes the password into the nonce.           *)
(***************************************************************************)
GetInitialAuthData == StrDb \o <<0>> \o StrUser \o <<0>>

GetNextAuthData(authData) ==
    StrDb \o <<0>> \o StrUser \o <<0>> \o
    [i \in 1..Len(authData) |->
        (authData[i] + StrPasswd[1 + (i % Len(StrPasswd))] + i) % 256]

encAuthenticateStart == fBytes(1, StrMYSQL41) \o fBytes(2, GetInitialAuthData)

\* newAnyScalar(Any_SCALAR, newBoolScalar(value)) in a CapabilitiesSet
encCapabilitiesSet(name, value) ==
    fBytes(1, encCapabilities(<<encCapability(name, encAnyScalar(encScalarBool(value)))>>))

(***************************************************************************)
(* What one turn of a wait loop does with the frame readMsg returned:      *)
(*   pc      where the caller is afterwards ("idle": the operation         *)
(*           returned)                                                     *)
(*   ret     what the operation returned, if it did                        *)
(*   pb      mc.pb afterwards                                              *)
(*   table   mc.capabilities afterwards                                    *)
(*   notice  the frame was handed to processNotice                         *)
(*   out     bytes written to mc.netConn                                   *)
(*   close   mc.Close() was called                                         *)
(*   nextAuth  authInfo.GetNextAuthData was called                         *)
(***************************************************************************)
NoErr == [ok |-> FALSE]

Returned(err, e) == [err |-> err, e |-> e]

Turn(p, r, slot, tab, n) ==
    [pc |-> p, ret |-> r, pb |-> slot, table |-> tab, notice |-> n,
     out |-> <<>>, close |-> FALSE, nextAuth |-> FALSE,
     seen |-> NilPb]

\* mc.processNotice(where) with the slot holding p: the slot is reset unless
\* the process died
processNotice(loop, p, tab) ==
    [(IF processNoticeFatal(p)
      THEN Turn("fatal", NoRet, p, tab, TRUE)
      ELSE Turn(loop, NoRet, NilPb, tab, TRUE)) EXCEPT !.seen = p]

noticeTurnSlotKept(loop, frame, tab) == processNotice(loop, pb, tab)

\* mc.pb = pb; mc.processNotice(where): the slot holds the frame just read
noticeTurn(loop, frame, tab) == processNotice(loop, frame, tab)

\* case Mysqlx.ServerMessages_ERROR of getCapabilities
getCapabilitiesError(frame, slot, tab) ==
    IF errorMsgFatal(frame.payload)
    THEN Turn("fatal", NoRet, slot, tab, FALSE)
    ELSE Turn("idle", Returned("getCapabilities returned", errorMsg(frame.payload)),
              slot, tab, FALSE)

\* the loop over the decoded capabilities and the return
getCapabilitiesStored(st, slot) ==
    IF st.panic THEN Turn("panic", NoRet, slot, st.table, FALSE)
    ELSE Turn("idle", Returned("nil", NoErr), slot, st.table, FALSE)

\* proto.Unmarshal(pb.payload, capabilities) and what follows it
getCapabilitiesDecoded(c, slot, tab) ==
    IF ~c.ok THEN Turn("idle", Returned("unmarshaling error", NoErr), slot, tab, FALSE)
    ELSE getCapabilitiesStored(storeCapabilities(tab, c.capabilities), slot)

getCapabilitiesReplyEmptyDecoded(frame, slot, tab) ==
    getCapabilitiesDecoded(unmarshalCapabilities(frame.payload), slot, tab)

\* case Mysqlx.ServerMessages_CONN_CAPABILITIES and the code after the loop
getCapabilitiesReply(frame, slot, tab) ==
    IF frame.payloadNil
    THEN Turn("idle", Returned("BUG: Empty pb.payload", NoErr), slot, tab, FALSE)
    ELSE getCapabilitiesDecoded(unmarshalCapabilities(frame.payload), slot, tab)

\* one turn of the loop of getCapabilities on a frame read without error
getCapabilitiesTurn(frame, slot, tab) ==
    IF frame.msgType = ServerMessages_ERROR
    THEN getCapabilitiesError(frame, slot, tab)
    ELSE IF frame.msgType = ServerMessages_CONN_CAPABILITIES
    THEN getCapabilitiesReply(frame, slot, tab)
    ELSE IF frame.msgType = ServerMessages_NOTICE
    THEN noticeTurn("getCapabilities", frame, tab)
    ELSE Turn("getCapabilities", NoRet, slot, tab, FALSE)

\* mc.processErrorMsg(): reads mc.pb, not the frame the loop has just read
processErrorMsg(slot) ==
    IF slot.isNil THEN [err |-> "processErrorMsg mc.pb == nil", pb |-> slot]
    ELSE IF slot.payloadNil
    THEN [err |-> "processErrorMsg mc.pb.payload == nil", pb |-> slot]
    ELSE IF ~unmarshalError(slot.payload).ok
    THEN [err |-> "unmarshaling error", pb |-> slot]
    ELSE [err |-> "nil", pb |-> NilPb]

\* case Mysqlx.ServerMessages_ERROR of setScalarBoolCapability
setScalarBoolCapabilityError(e, tab) ==
    Turn("idle", Returned("setScalarBoolCapability failed",
                          [ok |-> FALSE, text |-> e.err]), e.pb, tab, FALSE)

\* one turn of the loop of setScalarBoolCapability on a frame read without error
setScalarBoolCapabilityTurn(frame, slot, tab) ==
    IF frame.msgType = ServerMessages_OK
    THEN Turn("idle", Returned("nil", NoErr), slot, tab, FALSE)
    ELSE IF frame.msgType = ServerMessages_ERROR
    THEN setScalarBoolCapabilityError(processErrorMsg(slot), tab)
    ELSE IF frame.msgType = ServerMessages_NOTICE
    THEN noticeTurn("setScalarBoolCapability", frame, tab)
    ELSE Turn("setScalarBoolCapability", NoRet, slot, tab, FALSE)

nonceLengthUnchecked(authData) == FALSE

\* if len(authData) != 20
badNonceLength(authData) == Len(authData) # 20

awaitNonceTolerant(frame) == FALSE

\* if ServerMessages_Type(pb.msgType) != ServerMessages_SESS_AUTHENTICATE_CONTINUE
notContinue(frame) == frame.msgType # ServerMessages_SESS_AUTHENTICATE_CONTINUE

responseSentTwice(w, slot, tab) ==
    [pc |-> IF w.err = "nil" THEN "AwaitResult" ELSE "idle",
     ret |-> IF w.err = "nil" THEN NoRet
             ELSE Returned("failed writing AuthenticateContinue",
                           [ok |-> FALSE, text |-> w.err]),
     pb |-> slot, table |-> tab, notice |-> FALSE,
     out |-> w.out \o w.out, close |-> w.close, nextAuth |-> TRUE,
     seen |-> NilPb]

\* mc.writeSessAuthenticateContinue(authenticateContinue) and its error check
responseSent(w, slot, tab) ==
    [pc |-> IF w.err = "nil" THEN "AwaitResult" ELSE "idle",
     ret |-> IF w.err = "nil" THEN NoRet
             ELSE Returned("failed writing AuthenticateContinue",
                           [ok |-> FALSE, text |-> w.err]),
     pb |-> slot, table |-> tab, notice |-> FALSE,
     out |-> w.out, close |-> w.close, nextAuth |-> TRUE,
     seen |-> NilPb]

\* from readSessAuthenticateContinue(pb) to the scrambled response
awaitNonceContinue(c, slot, tab, max, down) ==
    IF ~c.ok THEN Turn("fatal", NoRet, slot, tab, FALSE)
    ELSE IF badNonceLength(c.authData)
    THEN Turn("idle", Returned("bad nonce length", NoErr), slot, tab, FALSE)
    ELSE responseSent(
             writeProtobufPacket(
                 netProtobuf(ClientMessages_SESS_AUTHENTICATE_CONTINUE,
                             encAuthData(GetNextAuthData(c.authData)), FALSE),
                 max, down),
             slot, tab)

\* AuthenticateMySQL41 from the frame read after authenticate-start up to
\* the call of waitingForAuthenticateOk
awaitNonceTurn(frame, slot, tab, max, down) ==
    IF notContinue(frame)
    THEN Turn("idle", Returned("unexpected message type", NoErr), slot, tab, FALSE)
    ELSE awaitNonceContinue(unmarshalAuthenticateContinue(frame.payload),
                            slot, tab, max, down)

awaitResultUnexpectedIgnored(frame, tab) ==
    Turn("AwaitResult", NoRet, frame, tab, FALSE)

\* default: log.Fatalf("... Received unexpected message type ...")
awaitResultUnexpected(frame, tab) ==
    Turn("fatal", NoRet, frame, tab, FALSE)

\* one turn of the loop of waitingForAuthenticateOk (mc.pb is the frame read)
\* and, once it returns, the rest of AuthenticateMySQL41
awaitResultTurn(frame, tab) ==
    IF frame.msgType = ServerMessages_SESS_AUTHENTICATE_OK
    THEN IF printAuthenticateOkFatal(frame.payload)
         THEN Turn("fatal", NoRet, frame, tab, FALSE)
         ELSE Turn("idle", Returned("nil", NoErr), NilPb, tab, FALSE)
    ELSE IF frame.msgType = ServerMessages_ERROR
    THEN IF errorMsgFatal(frame.payload)
         THEN Turn("fatal", NoRet, frame, tab, FALSE)
         ELSE Turn("idle", Returned("Failed to read message response",
                                    errorMsg(frame.payload)), frame, tab, FALSE)
    ELSE IF frame.msgType = ServerMessages_NOTICE
    THEN noticeTurn("AwaitResult", frame, tab)
    ELSE awaitResultUnexpected(frame, tab)

readFailedRetried(r, slot, tab) ==
    [pc |-> pc, ret |-> NoRet, pb |-> slot, table |-> tab,
     notice |-> FALSE, out |-> <<>>, close |-> r.close, nextAuth |-> FALSE,
     seen |-> NilPb]

\* readMsg returned an error: the loop returns it
readFailed(r, slot, tab) ==
    [pc |-> "idle", ret |-> Returned(r.err, NoErr), pb |-> slot, table |-> tab,
     notice |-> FALSE, out |-> <<>>, close |-> r.close, nextAuth |-> FALSE,
     seen |-> NilPb]

\* waitingForAuthenticateOk and then AuthenticateMySQL41 return the error of
\* readMsg inside fmt.Errorf("Failed to read message response ...: %v", err)
waitingForAuthenticateOkFailed(t) ==
    [t EXCEPT !.ret = Returned("Failed to read message response",
                               [ok |-> FALSE, text |-> t.ret.err])]

(***************************************************************************)
(* The peer.  It sends one frame at a time, to a caller that waits for it: *)
(* frames of every type the loops name, well-formed and not, and frames of *)
(* types they do not name.                                                 *)
(***************************************************************************)
PeerFrame(t, p) == [msgType |-> t, payload |-> p]

\* the frame on the wire: len(payload)+1 in four little-endian bytes, type, payload
wire(f) ==
    LET n == Len(f.payload) + 1
    IN  <<n % 256, (n \div 256) % 256, (n \div 65536) % 256, n \div 16777216,
          f.msgType>> \o f.payload

NoticeWarning ==
    PeerFrame(ServerMessages_NOTICE, encNotice(1, encWarning(1045, StrInvalidUser)))

NoticeVariable ==
    PeerFrame(ServerMessages_NOTICE,
              encNotice(2, encSessionVariableChanged(StrTls, encScalarBool(TRUE))))

NoticeUnknown == PeerFrame(ServerMessages_NOTICE, encNotice(9, <<1, 2, 3>>))

\* a warning without its required fields
NoticeBadPayload == PeerFrame(ServerMessages_NOTICE, encNotice(1, <<>>))

\* an envelope cut in the middle of a field
NoticeBadFrame == PeerFrame(ServerMessages_NOTICE, <<8>>)

Error1045 ==
    PeerFrame(ServerMessages_ERROR, encError(0, 1045, StrHY000, StrInvalidUser))

ErrorBad == PeerFrame(ServerMessages_ERROR, <<16>>)

CapsFormatsTls ==
    PeerFrame(ServerMessages_CONN_CAPABILITIES, encCapabilities(
        <<encCapability(StrDocFormats, encAnyScalar(encScalarString(StrJSON))),
          encCapability(StrTls, encAnyScalar(encScalarBool(TRUE)))>>))

CapsMechs ==
    PeerFrame(ServerMessages_CONN_CAPABILITIES, encCapabilities(
        <<encCapability(StrTls, encAnyScalar(encScalarBool(FALSE))),
          encCapability(StrNodeType, encAnyScalar(encScalarUint(5))),
          encCapability(StrAuthMechs,
              encAnyArray(<<encAnyScalar(encScalarString(StrMYSQL41)),
                            encAnyScalar(encScalarString(StrPLAIN))>>))>>))

CapsObject ==
    PeerFrame(ServerMessages_CONN_CAPABILITIES, encCapabilities(
        <<encCapability(StrTls, encAnyScalar(encScalarBool(TRUE))),
          encCapability(StrNodeType, encAnyObject),
          encCapability(StrDocFormats, encAnyScalar(encScalarString(StrJSON)))>>))

CapsMixedArray ==
    PeerFrame(ServerMessages_CONN_CAPABILITIES, encCapabilities(
        <<encCapability(StrDocFormats, encAnyScalar(encScalarString(StrJSON))),
          encCapability(StrAuthMechs,
              encAnyArray(<<encAnyScalar(encScalarString(StrMYSQL41)),
                            encAnyScalar(encScalarBool(TRUE))>>))>>))

CapsRepeated ==
    PeerFrame(ServerMessages_CONN_CAPABILITIES, encCapabilities(
        <<encCapability(StrDocFormats, encAnyScalar(encScalarString(StrJSON))),
          encCapability(StrDocFormats, encAnyScalar(encScalarString(StrPLAIN)))>>))

CapsEmpty == PeerFrame(ServerMessages_CONN_CAPABILITIES, <<>>)

CapsBad == PeerFrame(ServerMessages_CONN_CAPABILITIES, <<10, 9, 1>>)

Ok == PeerFrame(ServerMessages_OK, <<>>)

Continue20 ==
    PeerFrame(ServerMessages_SESS_AUTHENTICATE_CONTINUE,
              encAuthData([i \in 1..20 |-> 64 + i]))

Continue4 ==
    PeerFrame(ServerMessages_SESS_AUTHENTICATE_CONTINUE, encAuthData(<<1, 2, 3, 4>>))

Continue21 ==
    PeerFrame(ServerMessages_SESS_AUTHENTICATE_CONTINUE,
              encAuthData([i \in 1..21 |-> 64 + i]))

ContinueBad == PeerFrame(ServerMessages_SESS_AUTHENTICATE_CONTINUE, <<>>)

AuthOk == PeerFrame(ServerMessages_SESS_AUTHENTICATE_OK, <<>>)

AuthOkData == PeerFrame(ServerMessages_SESS_AUTHENTICATE_OK, encAuthData(<<7, 7>>))

AuthOkBad == PeerFrame(ServerMessages_SESS_AUTHENTICATE_OK, <<10, 9, 1>>)

Row == PeerFrame(ServerMessages_RESULTSET_ROW, <<1>>)

Notices == {NoticeWarning, NoticeVariable, NoticeUnknown, NoticeBadPayload, NoticeBadFrame}

Errors == {Error1045, ErrorBad}

\* what the peer answers to the request the caller is waiting on: every kind
\* of frame the loop tells apart, and frames of types it does not name
PeerFrames(loop) ==
    IF loop = "getCapabilities"
    THEN Notices \cup Errors \cup
         {CapsFormatsTls, CapsMechs, CapsObject, CapsMixedArray, CapsRepeated, CapsEmpty,
          CapsBad, Ok, Row}
    ELSE IF loop = "setScalarBoolCapability"
    THEN Notices \cup Errors \cup {Ok, CapsFormatsTls, Row}
    ELSE IF loop = "AwaitNonce"
    THEN {Continue20, Continue4, Continue21, ContinueBad, NoticeWarning, Error1045,
          Ok, AuthOk}
    ELSE Notices \cup Errors \cup {AuthOk, AuthOkData, AuthOkBad, Ok, Continue20, Row}

\* bytes that are no frame: a zero header, and a frame cut short
JunkChoices == { <<0, 0, 0, 0, 11>>, <<9, 0, 0, 0, 11, 8>> }

CapabilityNames == {StrTls}

(***************************************************************************)
(* The connection: a caller runs getCapabilities, setScalarBoolCapability  *)
(* and AuthenticateMySQL41 on it, one at a time.                           *)
(***************************************************************************)
SpecPacketChoices == {minPacketSize, BigPacket}

Init ==
    /\ InitCommon
    /\ maxPacketAllowed \in SpecPacketChoices

\* the caller is blocked in the readMsg of a wait loop
Waiting == pc \in {"getCapabilities", "setScalarBoolCapability", "AwaitNonce", "AwaitResult"}

PeerSend ==
    /\ Waiting /\ ~netDown /\ inbuf = <<>>
    /\ \E f \in PeerFrames(pc) : inbuf' = wire(f)
    /\ fed' = [kind |-> "peer", n |-> IF fed.kind = "peer" THEN fed.n + 1 ELSE 1]
    /\ (fed.kind = "peer" => fed.n < MaxFrames)
    /\ UNCHANGED <<netDown, netOut, closed, maxPacketAllowed, pb, capabilities, pc,
                   op, ret, readLog, notices, nextAuthCalls, calls>>

PeerJunk ==
    /\ Waiting /\ ~netDown /\ inbuf = <<>>
    /\ \E raw \in JunkChoices : inbuf' = raw
    /\ fed' = [kind |-> "peer", n |-> IF fed.kind = "peer" THEN fed.n + 1 ELSE 1]
    /\ (fed.kind = "peer" => fed.n < MaxFrames)
    /\ UNCHANGED <<netDown, netOut, closed, maxPacketAllowed, pb, capabilities, pc,
                   op, ret, readLog, notices, nextAuthCalls, calls>>

\* an operation has handed its request to writeProtobufPacket: it enters
\* its wait loop, or returns the error of the write
Started(name, arg, loop, ignoreErr, w) ==
    /\ netOut' = w.out
    /\ closed' = (closed \/ w.close)
    /\ pc' = IF w.err = "nil" \/ ignoreErr THEN loop ELSE "idle"
    /\ ret' = IF w.err = "nil" \/ ignoreErr THEN NoRet
              ELSE Returned(name, [ok |-> FALSE, text |-> w.err])
    /\ op' = [name |-> name, arg |-> arg, table |-> capabilities, sent |-> w.out,
              sendErr |-> w.err]
    /\ readLog' = <<>>
    /\ notices' = <<>>
    /\ nextAuthCalls' = 0
    /\ calls' = calls + 1
    /\ UNCHANGED <<inbuf, netDown, maxPacketAllowed, pb, capabilities, fed>>

Start(name, arg, loop, frame, ignoreErr) ==
    /\ pc = "idle" /\ ~closed /\ calls < MaxCalls
    /\ Started(name, arg, loop, ignoreErr,
               writeProtobufPacket(frame, maxPacketAllowed, netDown))

\* getCapabilities up to its first read: writeConnCapabilitiesGet
CallGetCapabilities ==
    Start("getCapabilities", <<>>, "getCapabilities",
          netProtobuf(ClientMessages_CON_CAPABILITIES_GET, <<>>, TRUE), FALSE)

\* setScalarBoolCapability up to its first read
CallSetScalarBoolCapability ==
    \E name \in CapabilityNames, value \in BOOLEAN :
        Start("setScalarBoolCapability", <<name, value>>, "setScalarBoolCapability",
              netProtobuf(ClientMessages_CON_CAPABILITIES_SET,
                          encCapabilitiesSet(name, value), FALSE), FALSE)

\* mc.writeSessAuthenticateStart(msg): the error it returns is dropped
startErrorIgnored == TRUE

\* AuthenticateMySQL41 up to its first read
CallAuthenticateMySQL41 ==
    Start("AuthenticateMySQL41", <<>>, "AwaitNonce",
          netProtobuf(ClientMessages_SESS_AUTHENTICATE_START, encAuthenticateStart,
                      FALSE), startErrorIgnored)

\* a blocked readMsg has completed with r and the loop has taken the turn t
Stepped(r, t) ==
    /\ inbuf' = r.rest
    /\ readLog' = IF r.err = "nil" THEN Append(readLog, r.pb) ELSE readLog
    /\ pc' = t.pc
    /\ ret' = t.ret
    /\ pb' = t.pb
    /\ capabilities' = t.table
    /\ notices' = IF t.notice THEN Append(notices, t.seen) ELSE notices
    /\ netOut' = netOut \o t.out
    /\ closed' = (closed \/ t.close)
    /\ nextAuthCalls' = IF t.nextAuth THEN nextAuthCalls + 1 ELSE nextAuthCalls
    /\ UNCHANGED <<netDown, maxPacketAllowed, op, fed, calls>>

getCapabilitiesRead(r) ==
    Stepped(r, IF r.err # "nil" THEN readFailed(r, pb, capabilities)
               ELSE getCapabilitiesTurn(r.pb, pb, capabilities))

\* the loop of getCapabilities: pb, err = mc.readMsg() and the switch
StepGetCapabilities ==
    /\ pc = "getCapabilities"
    /\ canReadMsg(inbuf, netDown)
    /\ getCapabilitiesRead(readMsg(inbuf))

setScalarBoolCapabilityRead(r) ==
    Stepped(r, IF r.err # "nil" THEN readFailed(r, pb, capabilities)
               ELSE setScalarBoolCapabilityTurn(r.pb, pb, capabilities))

\* the loop of setScalarBoolCapability
StepSetScalarBoolCapability ==
    /\ pc = "setScalarBoolCapability"
    /\ canReadMsg(inbuf, netDown)
    /\ setScalarBoolCapabilityRead(readMsg(inbuf))

awaitNonceRead(r) ==
    Stepped(r, IF r.err # "nil" THEN readFailed(r, pb, capabilities)
               ELSE awaitNonceTurn(r.pb, pb, capabilities, maxPacketAllowed, netDown))

\* AuthenticateMySQL41: pb, err := mc.readMsg() after authenticate-start
StepAwaitNonce ==
    /\ pc = "AwaitNonce"
    /\ canReadMsg(inbuf, netDown)
    /\ awaitNonceRead(readMsg(inbuf))

\* mc.pb, err = mc.readMsg(): a failed read leaves mc.pb nil
awaitResultRead(r) ==
    Stepped(r, IF r.err # "nil"
               THEN waitingForAuthenticateOkFailed(readFailed(r, NilPb, capabilities))
               ELSE awaitResultTurn(r.pb, capabilities))

\* the loop of waitingForAuthenticateOk
StepAwaitResult ==
    /\ pc = "AwaitResult"
    /\ canReadMsg(inbuf, netDown)
    /\ awaitResultRead(readMsg(inbuf))



Next ==
    \/ CallGetCapabilities
    \/ CallSetScalarBoolCapability
    \/ CallAuthenticateMySQL41
    \/ StepGetCapabilities
    \/ StepSetScalarBoolCapability
    \/ StepAwaitNonce
    \/ StepAwaitResult
    \/ PeerSend
    \/ PeerJunk
    \/ NetFail

Spec == Init /\ [][Next]_vars

\* the same program with its scheduling: a readMsg that can complete does
\* (the caller's goroutine is blocked on nothing else); the peer and the
\* transport are under no obligation.  This is weak fairness of the steps of
\* the wait loops, WF_vars(Step...), with their enabling condition written
\* out: each is enabled exactly when its loop waits and canReadMsg holds.
SpecLive ==
    /\ Init /\ [][Next]_vars
    /\ <>[](Waiting /\ canReadMsg(inbuf, netDown)) =>
           []<><<\/ StepGetCapabilities
                 \/ StepSetScalarBoolCapability
                 \/ StepAwaitNonce
                 \/ StepAwaitResult>>_vars

(***************************************************************************)
(* Claims about the frame codec, checked under SpecFrame.                  *)
(***************************************************************************)
InRange(t) == t \in 0..255

\* C1: a frame written by writeProtobufPacket(t, p), t in 0..255, and fed
\* back to readMsg is read as the same type t and the same payload p, and
\* nothing else is consumed; on the wire it is len(p)+1 in four little-endian
\* bytes, then the type byte, then p.
FrameRoundTrip ==
    /\ (op.name = "readMsg" /\ ret.src.kind = "echo" /\ InRange(ret.src.msgType)) =>
          /\ ret.err = "nil"
          /\ ~ret.pb.isNil
          /\ ret.pb.msgType = ret.src.msgType
          /\ ret.pb.payload = ret.src.payload
          /\ ret.rest = <<>>
    /\ (op.name = "writeProtobufPacket" /\ ret.err = "nil" /\ InRange(op.msgType)) =>
          /\ Len(ret.out) = 5 + Len(op.payload)
          /\ \A i \in 1..Len(ret.out) : ret.out[i] \in Byte
          /\ ret.out[1] + 256 * ret.out[2] + 65536 * ret.out[3]
                + 16777216 * ret.out[4] = Len(op.payload) + 1
          /\ ret.out[5] = op.msgType
          /\ \A i \in 1..Len(op.payload) : ret.out[5 + i] = op.payload[i]

\* a frame of the largest length the limit allows, two header bytes long, came back
FrameRoundTripWitness ==
    /\ op.name = "readMsg" /\ ret.src.kind = "echo" /\ ret.err = "nil"
    /\ Len(ret.pb.payload) = maxPacketAllowed - 1
    /\ Len(ret.pb.payload) > 255
    /\ ret.pb.msgType = 255

\* C2: a header whose little-endian length is below 1 makes readMsg fail as a
\* malformed packet with no frame, having consumed the four header bytes only.
MalformedHeaderRejected ==
    (/\ op.name = "readMsg"
     /\ Len(ret.before) >= 4
     /\ ret.before[1] + 256 * ret.before[2] + 65536 * ret.before[3]
           + 16777216 * ret.before[4] < 1) =>
        /\ ret.err = "ErrBadConn"
        /\ ret.logged = "ErrMalformPkt"
        /\ ret.pb = NilPb
        /\ ret.rest = Drop(ret.before, 4)
        /\ inbuf = ret.rest

\* a zero header was rejected with body bytes still unread behind it
MalformedHeaderWitness ==
    /\ op.name = "readMsg"
    /\ ret.logged = "ErrMalformPkt"
    /\ Len(ret.before) > 4
    /\ Len(inbuf) = Len(ret.before) - 4

\* C3: a frame with len(p)+1 above the limit is refused with ErrPktTooLarge,
\* nothing is written and the connection stays open; an in-limit write that
\* follows on a working transport succeeds and writes its whole frame.
TooLargeRefused ==
    /\ (/\ op.name = "writeProtobufPacket" /\ InRange(op.msgType)
        /\ Len(op.payload) + 1 > maxPacketAllowed) =>
          /\ ret.err = "ErrPktTooLarge"
          /\ ret.out = <<>>
          /\ netOut = <<>>
          /\ ~closed
    /\ (/\ op.name = "writeProtobufPacket" /\ InRange(op.msgType)
        /\ ret.after = "ErrPktTooLarge"
        /\ Len(op.payload) + 1 <= maxPacketAllowed
        /\ ~netDown) =>
          /\ ret.err = "nil"
          /\ Len(ret.out) = 5 + Len(op.payload)

\* a write succeeded right after a too-large one on the same connection
TooLargeWitness ==
    /\ op.name = "writeProtobufPacket"
    /\ ret.after = "ErrPktTooLarge"
    /\ ret.err = "nil"
    /\ Len(ret.out) > 5

(***************************************************************************)
(* Claims about the operations on a connection, checked under Spec.        *)
(***************************************************************************)
Last(s) == s[Len(s)]

IsNotice(f) == f.msgType = ServerMessages_NOTICE

Running(name) == op.name = name

\* the frames read so far by the current operation, the last one of type t
LastRead(t) == readLog # <<>> /\ Last(readLog).msgType = t

\* C4: in getCapabilities, while only NOTICE frames and frames of
\* unrecognised types have arrived, every NOTICE has been handed to
\* processNotice in arrival order and the operation has not ended other than
\* by a failed read; once a CONN_CAPABILITIES frame with a decodable list
\* arrives, the operation has returned success and reads no more.
TolerantWaitLoop ==
    (/\ Running("getCapabilities")
     /\ \A i \in 1..Len(readLog) : readLog[i].msgType # ServerMessages_ERROR) =>
        /\ notices = SelectSeq(readLog, IsNotice)
        /\ pc \notin {"fatal", "panic"}
        /\ (/\ readLog # <<>>
            /\ Last(readLog).msgType # ServerMessages_CONN_CAPABILITIES
            /\ pc = "idle") => ret.err = "ErrBadConn"
        /\ (/\ LastRead(ServerMessages_CONN_CAPABILITIES)
            /\ ~Last(readLog).payloadNil
            /\ unmarshalCapabilities(Last(readLog).payload).ok) =>
              /\ pc = "idle"
              /\ ret.err = "nil"

IsStringScalar(v) ==
    /\ v.type = Any_SCALAR /\ v.hasScalar
    /\ v.scalar.type = Scalar_V_STRING /\ v.scalar.hasVString

IsBoolScalar(v) ==
    /\ v.type = Any_SCALAR /\ v.hasScalar
    /\ v.scalar.type = Scalar_V_BOOL /\ v.scalar.hasVBool

IsStringArray(v) ==
    /\ v.type = Any_ARRAY
    /\ \A i \in 1..Len(v.array) : IsStringScalar(v.array[i])

Supported(v) == IsStringScalar(v) \/ IsBoolScalar(v) \/ IsStringArray(v)

\* the table entry a supported value should give
Expected(v) ==
    IF IsStringScalar(v)
    THEN [kind |-> "string", str |-> v.scalar.vString, bool |-> FALSE, arr |-> <<>>]
    ELSE IF IsBoolScalar(v)
    THEN [kind |-> "bool", str |-> <<>>, bool |-> v.scalar.vBool, arr |-> <<>>]
    ELSE [kind |-> "array", str |-> <<>>, bool |-> FALSE,
          arr |-> [i \in 1..Len(v.array) |-> v.array[i].scalar.vString]]

Succeeded(name) == Running(name) /\ pc = "idle" /\ ret.err = "nil"

\* the capabilities of the reply that ended a successful getCapabilities
ReplyCapabilities == unmarshalCapabilities(Last(readLog).payload).capabilities

StoredAsDecoded(c) ==
    /\ c.name \in DOMAIN capabilities
    /\ capabilities[c.name] = Expected(c.value)

\* C5 as stated: after a successful getCapabilities the table maps the name
\* of every supported capability of the reply to its decoded value.
CapabilitiesStored ==
    Succeeded("getCapabilities") =>
        \A i \in 1..Len(ReplyCapabilities) :
            Supported(ReplyCapabilities[i].value) => StoredAsDecoded(ReplyCapabilities[i])

NamedOnce(caps, i) ==
    \A j \in 1..Len(caps) :
        (j # i /\ Supported(caps[j].value)) => caps[j].name # caps[i].name

\* C5: after a successful getCapabilities the table maps the name of every
\* supported capability of the reply to its decoded value, under the
\* matching kind, when no other supported capability of the reply has that name.
CapabilitiesStoredOnce ==
    Succeeded("getCapabilities") =>
        \A i \in 1..Len(ReplyCapabilities) :
            (Supported(ReplyCapabilities[i].value) /\ NamedOnce(ReplyCapabilities, i))
                => StoredAsDecoded(ReplyCapabilities[i])

\* a reply with a string, a bool and an array of strings was stored
CapabilitiesStoredWitness ==
    /\ Succeeded("getCapabilities")
    /\ StrAuthMechs \in DOMAIN capabilities
    /\ capabilities[StrAuthMechs].arr = <<StrMYSQL41, StrPLAIN>>
    /\ StrTls \in DOMAIN capabilities
    /\ capabilities[StrTls].kind = "bool"
    /\ StrDocFormats \in DOMAIN capabilities
    /\ capabilities[StrDocFormats].str = StrJSON

\* C6: an ERROR frame read by getCapabilities ends the operation with an
\* error carrying the decoded server error, with the capability table as it
\* was when the operation started.
ErrorEndsGetCapabilities ==
    (Running("getCapabilities") /\ LastRead(ServerMessages_ERROR)) =>
        /\ pc = "idle"
        /\ ret.err = "getCapabilities returned"
        /\ ret.e.ok
        /\ ret.e.code = unmarshalError(Last(readLog).payload).code
        /\ ret.e.msg = unmarshalError(Last(readLog).payload).msg
        /\ capabilities = op.table

\* the handshake has sent its response and read one reply, of type t
ReplyAfterResponse(t) ==
    /\ Running("AuthenticateMySQL41")
    /\ Len(readLog) = 2
    /\ readLog[2].msgType = t

\* C7 as stated: a generic OK after the scrambled response ends the
\* handshake in Authenticated.
GenericOkAuthenticates ==
    ReplyAfterResponse(ServerMessages_OK) => (pc = "idle" /\ ret.err = "nil")

\* C7: a SESS_AUTHENTICATE_OK with a decodable payload, read after the
\* 20-byte nonce was answered with the scrambled response, ends the handshake
\* in Authenticated: AuthenticateMySQL41 returns nil.
AuthenticateOkAuthenticates ==
    (/\ ReplyAfterResponse(ServerMessages_SESS_AUTHENTICATE_OK)
     /\ unmarshalAuthenticateOk(readLog[2].payload).ok) =>
        /\ pc = "idle"
        /\ ret.err = "nil"
        /\ Len(unmarshalAuthenticateContinue(readLog[1].payload).authData) = 20
        /\ Len(netOut) > Len(op.sent)

\* the handshake returned nil after start, nonce, response, authenticate-ok
AuthenticatedWitness ==
    /\ Succeeded("AuthenticateMySQL41")
    /\ Len(readLog) = 2
    /\ readLog[1].msgType = ServerMessages_SESS_AUTHENTICATE_CONTINUE
    /\ readLog[2].msgType = ServerMessages_SESS_AUTHENTICATE_OK
    /\ nextAuthCalls = 1
    /\ op.sent # <<>>

\* C8: an ERROR frame read after the scrambled response was sent ends the
\* handshake with an error carrying the decoded severity, code, sqlState and
\* message, and nothing is read after it.
ErrorFailsHandshake ==
    (/\ Running("AuthenticateMySQL41")
     /\ Len(readLog) >= 2
     /\ Last(readLog).msgType = ServerMessages_ERROR) =>
        /\ pc = "idle"
        /\ ret.err = "Failed to read message response"
        /\ ret.e = errorText(unmarshalError(Last(readLog).payload))

\* the first frame the handshake read is an authenticate-continue that decodes
NonceRead ==
    /\ readLog # <<>>
    /\ readLog[1].msgType = ServerMessages_SESS_AUTHENTICATE_CONTINUE
    /\ unmarshalAuthenticateContinue(readLog[1].payload).ok

NonceLength == Len(unmarshalAuthenticateContinue(readLog[1].payload).authData)

\* C9: GetNextAuthData is called and a second message is sent only after a
\* nonce of 20 bytes; a nonce of another length makes AuthenticateMySQL41
\* return an error with no call of GetNextAuthData and nothing sent.
NonceLengthChecked ==
    Running("AuthenticateMySQL41") =>
        /\ (nextAuthCalls > 0 \/ netOut # op.sent) => (NonceRead /\ NonceLength = 20)
        /\ (NonceRead /\ NonceLength # 20) =>
              /\ pc = "idle"
              /\ ret.err = "bad nonce length"
              /\ nextAuthCalls = 0
              /\ netOut = op.sent
              /\ Len(readLog) = 1

\* a nonce of 21 bytes was refused after authenticate-start had gone out
NonceLengthWitness ==
    /\ Running("AuthenticateMySQL41")
    /\ NonceRead
    /\ NonceLength = 21
    /\ ret.err = "bad nonce length"
    /\ op.sent # <<>>

\* C10: when the first frame read after authenticate-start is not a
\* SESS_AUTHENTICATE_CONTINUE, AuthenticateMySQL41 has returned an error
\* after that one frame, with no call of processNotice and nothing sent.
AwaitNonceStrict ==
    (/\ Running("AuthenticateMySQL41")
     /\ readLog # <<>>
     /\ readLog[1].msgType # ServerMessages_SESS_AUTHENTICATE_CONTINUE) =>
        /\ pc = "idle"
        /\ ret.err = "unexpected message type"
        /\ Len(readLog) = 1
        /\ notices = <<>>
        /\ nextAuthCalls = 0
        /\ netOut = op.sent

\* a NOTICE was the first reply to an authenticate-start that had gone out
AwaitNonceStrictWitness ==
    /\ Running("AuthenticateMySQL41")
    /\ readLog # <<>>
    /\ IsNotice(readLog[1])
    /\ ret.err = "unexpected message type"
    /\ op.sent # <<>>

\* bytes that are exactly one frame of type t
OneFrame(bytes, t) ==
    /\ Len(bytes) >= 5
    /\ Len(bytes) = 4 + pktLenOf(bytes)
    /\ bytes[5] = t

\* what the handshake has written after authenticate-start
SentAfterStart == Drop(netOut, Len(op.sent))

\* C11: AuthenticateMySQL41 writes authenticate-start first and after it at
\* most one authenticate-continue, that one only after a 20-byte nonce was
\* read; it waits for the result only after the response went out, returns
\* nil only on that path, and calls GetNextAuthData at most once.
HandshakeOrdering ==
    Running("AuthenticateMySQL41") =>
        /\ op.sent = <<>> \/ OneFrame(op.sent, ClientMessages_SESS_AUTHENTICATE_START)
        /\ SubSeq(netOut, 1, Len(op.sent)) = op.sent
        /\ \/ SentAfterStart = <<>>
           \/ /\ OneFrame(SentAfterStart, ClientMessages_SESS_AUTHENTICATE_CONTINUE)
              /\ op.sent # <<>>
              /\ NonceRead
              /\ NonceLength = 20
        /\ nextAuthCalls <= 1
        /\ pc = "AwaitNonce" => (readLog = <<>> /\ SentAfterStart = <<>>)
        /\ (pc = "AwaitResult" \/ Len(readLog) >= 2 \/ ret.err = "nil") =>
              (SentAfterStart # <<>> /\ nextAuthCalls = 1)

\* the handshake failed in AwaitResult with exactly two messages written
HandshakeOrderingWitness ==
    /\ Running("AuthenticateMySQL41")
    /\ pc = "idle"
    /\ ret.err = "Failed to read message response"
    /\ Len(readLog) = 3
    /\ OneFrame(SentAfterStart, ClientMessages_SESS_AUTHENTICATE_CONTINUE)

\* the operation has returned the error of a failed read
EndedByFailedRead ==
    /\ pc = "idle"
    /\ \/ ret.err = "ErrBadConn"
       \/ /\ ret.err = "Failed to read message response"
          /\ ret.e = [ok |-> FALSE, text |-> "ErrBadConn"]

\* the frames the handshake has read after the nonce
ReadInAwaitResult == Drop(readLog, 1)

\* C12: in AwaitResult, while only NOTICE frames have arrived, each has been
\* handed to processNotice in order and the handshake has not ended other
\* than by a failed read; a SESS_AUTHENTICATE_OK frame with a decodable
\* payload after them ends it in Authenticated with the slot cleared.
AwaitResultTolerant ==
    (/\ Running("AuthenticateMySQL41")
     /\ Len(readLog) >= 2
     /\ \A i \in 2..Len(readLog) :
           \/ IsNotice(readLog[i])
           \/ /\ i = Len(readLog)
              /\ readLog[i].msgType = ServerMessages_SESS_AUTHENTICATE_OK
              /\ unmarshalAuthenticateOk(readLog[i].payload).ok) =>
        /\ notices = SelectSeq(ReadInAwaitResult, IsNotice)
        /\ pc \notin {"fatal", "panic"}
        /\ (IsNotice(Last(readLog)) /\ pc = "idle") => EndedByFailedRead
        /\ ~IsNotice(Last(readLog)) => (pc = "idle" /\ ret.err = "nil" /\ pb = NilPb)

\* C13: setScalarBoolCapability writes one capability-set request and
\* nothing else; while only NOTICE frames and frames of unrecognised types
\* have arrived, each NOTICE has been handed to processNotice in order and
\* the operation has not ended other than by a failed read; the first OK
\* frame ends it with success.
SetCapabilityTolerant ==
    (/\ Running("setScalarBoolCapability")
     /\ \A i \in 1..Len(readLog) : readLog[i].msgType # ServerMessages_ERROR) =>
        /\ op.sent = <<>> \/ OneFrame(op.sent, ClientMessages_CON_CAPABILITIES_SET)
        /\ netOut = op.sent
        /\ notices = SelectSeq(readLog, IsNotice)
        /\ pc \notin {"fatal", "panic"}
        /\ \A i \in 1..(Len(readLog) - 1) : readLog[i].msgType # ServerMessages_OK
        /\ (/\ readLog # <<>>
            /\ Last(readLog).msgType # ServerMessages_OK
            /\ pc = "idle") => ret.err = "ErrBadConn"
        /\ LastRead(ServerMessages_OK) => (pc = "idle" /\ ret.err = "nil")

\* C14: an ERROR frame that decodes, read by setScalarBoolCapability, ends
\* the operation with an error carrying the decoded severity, code, sqlState
\* and message of that frame.
SetCapabilityErrorDecoded ==
    (/\ Running("setScalarBoolCapability")
     /\ LastRead(ServerMessages_ERROR)
     /\ unmarshalError(Last(readLog).payload).ok) =>
        /\ pc = "idle"
        /\ ret.err = "setScalarBoolCapability failed"
        /\ ret.e = errorText(unmarshalError(Last(readLog).payload))

\* the last frame read was handed to processNotice
NoticeHandled ==
    /\ readLog # <<>> /\ notices # <<>>
    /\ IsNotice(Last(readLog))
    /\ Last(notices) = Last(readLog)

\* C15: a NOTICE handed to processNotice, decodable or not, never ends the
\* process: the loop that received it waits for the next frame, and returns
\* only when a later read fails.
MalformedNoticeRecoverable ==
    NoticeHandled =>
        /\ pc # "fatal"
        /\ Waiting \/ EndedByFailedRead

\* a getCapabilities has read a CONN_CAPABILITIES reply whose list decodes
ReplyDecoded ==
    /\ Running("getCapabilities")
    /\ LastRead(ServerMessages_CONN_CAPABILITIES)
    /\ ~Last(readLog).payloadNil
    /\ unmarshalCapabilities(Last(readLog).payload).ok

\* the name of capability i of the reply is the name of no supported one
NotSupportedName(caps, i) ==
    \A j \in 1..Len(caps) : Supported(caps[j].value) => caps[j].name # caps[i].name

\* C16: a reply holding capabilities of unsupported shapes still makes
\* getCapabilities return success; an unsupported capability adds no entry
\* to the table and the supported ones around it are stored.
UnsupportedSkipped ==
    ReplyDecoded =>
        /\ pc = "idle"
        /\ ret.err = "nil"
        /\ \A i \in 1..Len(ReplyCapabilities) :
              /\ (Supported(ReplyCapabilities[i].value) /\ NamedOnce(ReplyCapabilities, i))
                    => StoredAsDecoded(ReplyCapabilities[i])
              /\ (/\ ~Supported(ReplyCapabilities[i].value)
                  /\ NotSupportedName(ReplyCapabilities, i)
                  /\ ReplyCapabilities[i].name \in DOMAIN capabilities) =>
                    /\ ReplyCapabilities[i].name \in DOMAIN op.table
                    /\ capabilities[ReplyCapabilities[i].name]
                          = op.table[ReplyCapabilities[i].name]

\* C17: after a successful getCapabilities the table holds exactly the
\* supported capabilities of the reply just read: every name in the table is
\* the name of a supported capability of that reply.
TableReplaced ==
    (Succeeded("getCapabilities") /\ ReplyDecoded) =>
        \A name \in DOMAIN capabilities :
            \E i \in 1..Len(ReplyCapabilities) :
                /\ ReplyCapabilities[i].name = name
                /\ Supported(ReplyCapabilities[i].value)

ShortRead(buf) ==
    \/ Len(buf) < 4
    \/ Len(buf) < 4 + (buf[1] + 256 * buf[2] + 65536 * buf[3] + 16777216 * buf[4])

\* a step of the caller blocked in a wait loop: neither the peer nor the
\* transport has acted
LoopStep == Waiting /\ UNCHANGED <<fed, netDown>>

\* C19: when the readMsg of a wait loop cannot read a full header or the full
\* body announced, the connection is closed, no frame is taken, and the
\* operation returns a bad-connection error at once, with nothing written,
\* stored or handed to processNotice.
ReadFailureFatal ==
    [][(LoopStep /\ ShortRead(inbuf)) =>
          /\ closed'
          /\ EndedByFailedRead'
          /\ readLog' = readLog
          /\ notices' = notices
          /\ capabilities' = capabilities
          /\ netOut' = netOut
          /\ pb' \in {pb, NilPb}]_vars

\* a getCapabilities has ended on a frame cut short after a notice was read:
\* the header was consumed, the two body bytes that arrived are left
ReadFailureWitness ==
    /\ Running("getCapabilities")
    /\ EndedByFailedRead
    /\ closed
    /\ Len(readLog) = 1
    /\ inbuf = <<11, 8>>

\* the handshake has ended on a header that never arrived in full
ReadFailureInHandshake ==
    /\ Running("AuthenticateMySQL41")
    /\ EndedByFailedRead
    /\ closed
    /\ Len(readLog) >= 2
    /\ inbuf = <<>>

\* a frame of a type the loop of waitingForAuthenticateOk does not name
Unexpected(frame) ==
    frame.msgType \notin {ServerMessages_SESS_AUTHENTICATE_OK, ServerMessages_ERROR,
                          ServerMessages_NOTICE}

\* C20: in AwaitResult a frame that is none of SESS_AUTHENTICATE_OK, ERROR or
\* NOTICE ends the process: it is the last frame the handshake reads, the
\* handshake neither waits on nor returns, and the response is not sent again.
UnexpectedFrameFatal ==
    (Running("AuthenticateMySQL41") /\ Len(readLog) >= 2) =>
        \A i \in 2..Len(readLog) :
            Unexpected(readLog[i]) =>
                /\ i = Len(readLog)
                /\ pc = "fatal"
                /\ ret = NoRet
                /\ nextAuthCalls = 1
                /\ notices = SelectSeq(SubSeq(readLog, 2, i - 1), IsNotice)

\* the process died on a generic OK that followed a notice in AwaitResult
UnexpectedFrameWitness ==
    /\ Running("AuthenticateMySQL41")
    /\ pc = "fatal"
    /\ Len(readLog) = 3
    /\ IsNotice(readLog[2])
    /\ readLog[3].msgType = ServerMessages_OK

(***************************************************************************)
(* The failed authenticate-start, termination of the wait loops, the empty *)
(* capability reply and the last-message slot, checked under Spec.         *)
(***************************************************************************)
\* C21: when writeSessAuthenticateStart fails, AuthenticateMySQL41 has
\* returned an error: it is not waiting for a frame, has read none and has
\* written nothing.
StartFailureReturned ==
    (Running("AuthenticateMySQL41") /\ op.sendErr # "nil") =>
        /\ pc = "idle"
        /\ ret.err \notin {"nil", "none"}
        /\ readLog = <<>>
        /\ netOut = <<>>
        /\ nextAuthCalls = 0

\* the caller is blocked in one of the three tolerant wait loops
TolerantWaiting == pc \in {"getCapabilities", "setScalarBoolCapability", "AwaitResult"}

\* the message types that end the loop named
TerminalTypes(loop) ==
    IF loop = "getCapabilities"
    THEN {ServerMessages_CONN_CAPABILITIES, ServerMessages_ERROR}
    ELSE IF loop = "setScalarBoolCapability"
    THEN {ServerMessages_OK, ServerMessages_ERROR}
    ELSE {ServerMessages_SESS_AUTHENTICATE_OK, ServerMessages_ERROR}

\* the loop the current operation waits in, and the frames it has read there
LoopOf(name) == IF name = "AuthenticateMySQL41" THEN "AwaitResult" ELSE name

ReadInLoop == IF Running("AuthenticateMySQL41") THEN ReadInAwaitResult ELSE readLog

\* a whole frame of a terminal type is buffered for the waiting loop
TerminalBuffered ==
    /\ Len(inbuf) >= 5
    /\ ~ShortRead(inbuf)
    /\ inbuf[5] \in TerminalTypes(pc)

\* C22: a tolerant wait loop that has read a terminal frame has returned, a
\* loop still waiting has read none, and a loop for which a terminal frame
\* has arrived or whose stream has failed eventually returns.
WaitLoopTermination ==
    /\ []((/\ op.name \in {"getCapabilities", "setScalarBoolCapability",
                           "AuthenticateMySQL41"}
           /\ ReadInLoop # <<>>
           /\ Last(ReadInLoop).msgType \in TerminalTypes(LoopOf(op.name))) =>
              (pc = "idle" /\ ret.err # "none"))
    /\ [](TolerantWaiting =>
              \A i \in 1..Len(ReadInLoop) :
                  ReadInLoop[i].msgType \notin TerminalTypes(pc))
    /\ ((TolerantWaiting /\ (TerminalBuffered \/ netDown)) ~> (pc = "idle"))

\* C23: a CONN_CAPABILITIES frame with no payload bytes reaches getCapabilities
\* with a nil payload; the operation returns "BUG: Empty pb.payload", not
\* success, and leaves the capability table as it was.
EmptyReplyRejected ==
    (/\ Running("getCapabilities")
     /\ LastRead(ServerMessages_CONN_CAPABILITIES)
     /\ Last(readLog).payload = <<>>) =>
        /\ Last(readLog).payloadNil
        /\ pc = "idle"
        /\ ret.err = "BUG: Empty pb.payload"
        /\ capabilities = op.table
        /\ \A i \in 1..(Len(readLog) - 1) :
              readLog[i].msgType # ServerMessages_CONN_CAPABILITIES

\* an empty reply was refused by a getCapabilities that followed a successful
\* one and a notice: the table of the first call is still there
EmptyReplyWitness ==
    /\ Running("getCapabilities")
    /\ Len(readLog) = 2
    /\ IsNotice(readLog[1])
    /\ Last(readLog) = netProtobuf(ServerMessages_CONN_CAPABILITIES, <<>>, TRUE)
    /\ ret.err = "BUG: Empty pb.payload"
    /\ capabilities # EmptyTable

\* the current operation is one of the three with a tolerant wait loop
InTolerantOp ==
    op.name \in {"getCapabilities", "setScalarBoolCapability", "AuthenticateMySQL41"}

\* C24: processNotice has been invoked exactly for the NOTICE frames read in
\* the tolerant loops, in order, each time with the last-message slot holding
\* that frame; once it has returned the slot is nil until the next turn of
\* the loop, and after a successful AuthenticateMySQL41 the slot is nil.
SlotDiscipline ==
    InTolerantOp =>
        /\ notices = SelectSeq(ReadInLoop, IsNotice)
        /\ \A i \in 1..Len(notices) : ~notices[i].isNil
        /\ (/\ ReadInLoop # <<>>
            /\ IsNotice(Last(ReadInLoop))
            /\ pc # "fatal") => pb = NilPb
        /\ (/\ ReadInLoop # <<>>
            /\ IsNotice(Last(ReadInLoop))
            /\ pc = "fatal") => pb = Last(ReadInLoop)
        /\ Succeeded("AuthenticateMySQL41") => pb = NilPb

\* the second operation on the connection, a getCapabilities, has handed the
\* notice it read to processNotice and waits for the next frame, the slot nil
SlotDisciplineWitness ==
    /\ Running("getCapabilities")
    /\ calls = 2
    /\ pc = "getCapabilities"
    /\ Len(readLog) = 1
    /\ notices = readLog
    /\ IsNotice(notices[1])
    /\ pb = NilPb
    /\ closed = FALSE

====
